---- MODULE Spec2Model ----
(***************************************************************************)
(* Durability and delivery engine of the log ingestion pipeline:           *)
(*   - redis LogRepository: BufferLog, StartHealthCheck, ReplayWAL         *)
(*     (internal/adapter/repository/redis/log_repository.go)               *)
(*   - WALRepository: Write, Replay, Truncate                              *)
(*     (internal/adapter/repository/wal/wal_repository.go)                 *)
(*   - ProcessLogsUseCase: ProcessBatch, writeWithRetry                    *)
(*     (internal/usecase/process_logs.go)                                  *)
(*   - postgres LogRepository: WriteLogBatch                               *)
(*     (internal/adapter/repository/postgres/log_repository.go)            *)
(*   - IngestHandler: ServeHTTP, handleSingleJSON, handleNDJSON            *)
(*     (internal/adapter/api/handler/ingest_handler.go)                    *)
(*   - IngestLogUseCase: Ingest (internal/usecase/ingest_log.go)           *)
(* File system calls of the WAL (open, write, sync, remove) succeed; a     *)
(* crash may leave the last line of the open segment cut short.  A         *)
(* transaction whose Commit returns an error is not committed.             *)
(***************************************************************************)
EXTENDS Integers, Sequences, FiniteSets, TLC

\* ---------------------------------------------------------------- bounds
\* number of distinct events a producer may submit
MaxEvents == 3
\* number of concurrent ingest requests (HTTP accept paths)
NumProcs == 2
\* number of times the buffer (redis) becomes unreachable
MaxOutages == 2
\* WAL_SEGMENT_SIZE, scaled down
MaxSegmentSize == 4
\* WAL_MAX_DISK_SIZE, scaled down
MaxTotalSize == 7
\* largest CONSUMER_RETRY_COUNT explored
MaxRetry == 3
\* CONSUMER_RETRY_BACKOFF, in time units
RetryBackoff == 2
\* events already in the stream when the consumer starts
MaxPreload == 3

\* batch size handed to ReadLogBatch (defaultBatchSize, scaled down)
defaultBatchSize == 2
\* bufio.MaxScanTokenSize, the longest line bufio.Scanner hands out, scaled down
MaxScanTokenSize == 4
\* segment files the WAL directory may hold when the WAL is driven directly
MaxSegments == 3
\* distinct event ids and column values written to the sink
MaxIds == 2
MaxCols == 2
\* events in one WriteLogBatch call
MaxBatchLen == 2
\* lines of a request body
MaxLines == 2
\* goroutines calling IsValid, API keys they ask for, ticks of the clock
MaxCallers == 2
MaxKeys == 1
MaxTime == 3
\* APIKeyRepository.cacheTTL, in ticks
cacheTTL == 2
\* entries of the stream up to which a replay is followed
MaxStream == 4

Events == 1..MaxEvents
Procs == 1..NumProcs
\* events handed to the WAL when it is driven directly: those of the ingest
\* path and one whose line is longer than the scanner's buffer
WalInputs == Events \cup {MaxScanTokenSize}

VARIABLES
    \* ---- environment
    redisUp,        \* the buffer (redis) answers commands
    outages,        \* how many times the buffer went down so far
    \* ---- redis LogRepository
    isAvailable,    \* LogRepository.isAvailable (atomic.Bool)
    stream,         \* the log_events stream: sequence of event ids, in XADD order
    hcPc,           \* position of the StartHealthCheck goroutine
    replayPos,      \* number of WAL lines the running Replay has scanned
    \* ---- WALRepository
    segments,       \* segment files in sorted (creation) order; each a sequence of lines
    currentSegment, \* index of the open segment in segments, 0 when nil
    currentSize,    \* WALRepository.currentSize
    walLock,        \* holder of WALRepository.mu: "free" or "hc"
    \* ---- ingest requests
    pc,             \* position of each BufferLog call
    ev,             \* event each BufferLog call carries (0: none)
    outcome,        \* per event: what BufferLog returned and through which path
    \* ---- consumer (ProcessLogsUseCase)
    retryCount,     \* ProcessLogsUseCase.retryCount
    sinkUp,         \* the sink (postgres) accepts WriteLogBatch
    cancelled,      \* ctx of the consumer has been cancelled
    lastDelivered,  \* group cursor: stream entries 1..lastDelivered were delivered (">")
    pending,        \* pending entries list of the group: delivered, not acked message ids
    sink,           \* set of event ids stored in the logs table
    dlq,            \* the DLQ stream: sequence of event ids
    cpc,            \* position of the consumer inside ProcessBatch
    batch,          \* message ids (stream positions) of the batch in hand
    attempt,        \* loop variable i of writeWithRetry
    lastErr,        \* lastErr of writeWithRetry: "nil", "sink", "ctx"
    calls,          \* WriteLogBatch calls made for the batch in hand
    sleeps,         \* backoff delays slept for the batch in hand
    status,         \* batch state: "NONE","READ","WRITING","SUNK","DLQED","ACKED"
    trail,          \* calls ProcessBatch made on the buffer for the batch in hand
    result,         \* what the last ProcessBatch returned: <<count, err>>
    \* ---- WALRepository seen by its caller
    handled,        \* events the handler was invoked with by the last Replay, in order
    replayResult,   \* what the last Replay returned: "none","nil","handler","scan"
    written,        \* events whose Write returned nil since the last Truncate, in order
    walOp,          \* the last WAL operation: name, argument, result, segments before it
    \* ---- postgres LogRepository (the sink)
    table,          \* committed rows of the logs table
    txTable,        \* the logs table as the open transaction sees it
    staging,        \* rows of logs_temp_import
    wbatch,         \* the events handed to the running or last WriteLogBatch
    txPc,           \* position inside WriteLogBatch
    wres,           \* what the last WriteLogBatch returned
    tableBefore,    \* committed rows when the running or last WriteLogBatch began
    \* ---- who made the buffer UNAVAILABLE
    lostBy,         \* "none" while AVAILABLE, else "probe" (constructor or health
                    \* check stored false) or "write" (a BufferLog call won the swap)
    \* ---- IngestHandler and IngestLogUseCase
    request,        \* the last request ServeHTTP was called with
    response,       \* the status code written for it (0: none yet)
    ingested,       \* the Ingest calls made for it, in order
    \* ---- APIKeyRepository
    cache,          \* APIKeyRepository.cache: per key an entry or NoEntry
    now,            \* time.Now()
    cacheMu,        \* holder of the write lock of APIKeyRepository.mu (0: free)
    apc,            \* position of each IsValid call
    akey,           \* the key each IsValid call asks for (0: none)
    aentry,         \* the entry each IsValid call read under the read lock
    ares            \* what the last IsValid of each caller returned

ingestVars == <<isAvailable, stream, hcPc, replayPos, segments, currentSegment,
                currentSize, walLock, pc, ev, outcome>>
envVars == <<redisUp, outages>>
consumerVars == <<retryCount, sinkUp, cancelled, lastDelivered, pending, sink, dlq,
                  cpc, batch, attempt, lastErr, calls, sleeps, status, trail,
                  result>>
walAuxVars == <<handled, replayResult, written, walOp>>
sinkVars == <<table, txTable, staging, wbatch, txPc, wres, tableBefore>>
availVars == <<lostBy>>
httpVars == <<request, response, ingested>>
\* the auxiliary variables an ingest-side action other than a swap leaves alone
cacheVars == <<cache, now, cacheMu, apc, akey, aentry, ares>>
sideVars == <<walAuxVars, sinkVars, httpVars, cacheVars>>
auxVars == <<sideVars, availVars>>
vars == <<envVars, ingestVars, consumerVars, auxVars>>

\* ---------------------------------------------------------------- helpers
RECURSIVE Flatten(_)
\* all lines of all segments, in getSortedSegments order
Flatten(segs) ==
    IF segs = <<>> THEN <<>> ELSE Head(segs) \o Flatten(Tail(segs))

Range(s) == {s[i] : i \in 1..Len(s)}

\* A line of a segment file is a number: e > 0 is the JSON of event e followed
\* by '\n'; Torn(e) is that JSON cut short by a crash, without its '\n';
\* Merged(t, e) is Torn(t) with the complete line of e appended to it.
Torn(e) == 0 - e
Merged(t, e) == 0 - (10 * t + e)
IsTorn(l) == l < 0 /\ l > 0 - 10

\* len(data) of Write for a complete line (the JSON of the event plus '\n'),
\* and the bytes a torn or merged line holds in the file
LineSize(l) ==
    IF l > 0 THEN 1 + l
    ELSE IF IsTorn(l) THEN 0 - l
    ELSE ((0 - l) \div 10) + 1 + ((0 - l) % 10)

\* Replay line 131: json.Unmarshal(scanner.Bytes(), &event) returns nil
Parsable(l) == l > 0

\* Replay lines 126/142: the line, without its '\n', does not fit the scanner's
\* buffer, so Scan() returns false and Err() is bufio.ErrTooLong
TooLong(l) ==
    (IF IsTorn(l) THEN LineSize(l) ELSE LineSize(l) - 1) >= MaxScanTokenSize

\* the file after f.Write(data) in O_APPEND mode: the bytes land behind the last
\* byte of the file, on the same line when that line has no '\n'
AppendLine(lines, e) ==
    IF lines # <<>> /\ IsTorn(lines[Len(lines)])
    THEN [lines EXCEPT ![Len(lines)] = Merged(0 - @, e)]
    ELSE Append(lines, e)

RECURSIVE SegSize(_)
\* size in bytes of one segment file
SegSize(lines) ==
    IF lines = <<>> THEN 0 ELSE LineSize(Head(lines)) + SegSize(Tail(lines))

\* the budget counting the last segment file only
calculateTotalSize_LastSegment(segs) ==
    IF segs = <<>> THEN 0 ELSE SegSize(segs[Len(segs)])

\* calculateTotalSize: sum of the sizes of all segment files
calculateTotalSize(segs) == SegSize(Flatten(segs))


\* ---------------------------------------------------------------- WAL
\* the WAL fields as one value
WalState == [segments |-> segments, currentSegment |-> currentSegment,
             currentSize |-> currentSize]

\* rotate: close the open segment, create segment-<now>.log, which sorts last
rotate(w) ==
    [segments |-> Append(w.segments, <<>>),
     currentSegment |-> Len(w.segments) + 1,
     currentSize |-> 0]

\* Write never rotating the segment it appends to
WriteChecked_NoRotate(w, e) ==
    IF calculateTotalSize(w.segments) + LineSize(e) > MaxTotalSize
    THEN [w |-> w, ok |-> FALSE]
    ELSE [w |-> [w EXCEPT !.segments[w.currentSegment] = AppendLine(@, e),
                          !.currentSize = @ + LineSize(e)],
          ok |-> TRUE]

\* Write, the part after the nil check: budget check, append, rotate
WriteChecked(w, e) ==
    IF calculateTotalSize(w.segments) + LineSize(e) > MaxTotalSize
    THEN [w |-> w, ok |-> FALSE]
    ELSE LET appended ==
                 [w EXCEPT !.segments[w.currentSegment] = AppendLine(@, e),
                           !.currentSize = @ + LineSize(e)]
         IN [w |-> IF appended.currentSize >= MaxSegmentSize
                   THEN rotate(appended) ELSE appended,
             ok |-> TRUE]

\* Write: returns the new WAL and whether the error is nil
Write(w, e) ==
    WriteChecked(IF w.currentSegment = 0 THEN rotate(w) ELSE w, e)

\* openLatestSegment creating no segment in an empty directory
openLatestSegment_NoCreate(w) ==
    IF w.segments = <<>> THEN w
    ELSE LET n == Len(w.segments)
             opened == [w EXCEPT !.currentSegment = n,
                                 !.currentSize = SegSize(w.segments[n])]
         IN IF opened.currentSize >= MaxSegmentSize THEN rotate(opened) ELSE opened

\* openLatestSegment: open the last segment, or create one
openLatestSegment(w) ==
    IF w.segments = <<>> THEN rotate(w)
    ELSE LET n == Len(w.segments)
             opened == [w EXCEPT !.currentSegment = n,
                                 !.currentSize = SegSize(w.segments[n])]
         IN IF opened.currentSize >= MaxSegmentSize THEN rotate(opened) ELSE opened

\* Truncate removing no segment file
Truncate_KeepFiles(w) == openLatestSegment(w)

\* Truncate: remove every segment file, then openLatestSegment
Truncate(w) ==
    openLatestSegment([segments |-> <<>>, currentSegment |-> 0, currentSize |-> 0])

SetWal(w) ==
    /\ segments' = w.segments
    /\ currentSegment' = w.currentSegment
    /\ currentSize' = w.currentSize

\* ---------------------------------------------------------------- environment
\* the buffer becomes unreachable
RedisDown ==
    /\ redisUp
    /\ outages < MaxOutages
    /\ redisUp' = FALSE
    /\ outages' = outages + 1
    /\ UNCHANGED <<auxVars, ingestVars, consumerVars>>

\* the buffer becomes reachable again
RedisRecover ==
    /\ ~redisUp
    /\ redisUp' = TRUE
    /\ UNCHANGED <<auxVars, outages, ingestVars, consumerVars>>

\* ---------------------------------------------------------------- BufferLog
\* the event the next request carries: events are submitted in order
NextEvent == CHOOSE e \in Events : outcome[e] = "new" /\ \A f \in Events : f < e => outcome[f] # "new"

\* BufferLog line 117: r.isAvailable.Load()
BufferLogLoad(p) ==
    /\ pc[p] = "idle"
    /\ \E e \in Events : outcome[e] = "new"
    /\ ev' = [ev EXCEPT ![p] = NextEvent]
    /\ outcome' = [outcome EXCEPT ![NextEvent] = "inflight"]
    /\ pc' = [pc EXCEPT ![p] = IF isAvailable THEN "xadd" ELSE "wal"]
    /\ UNCHANGED <<auxVars, envVars, consumerVars, isAvailable, stream, hcPc, replayPos,
                   segments, currentSegment, currentSize, walLock>>

\* isNetworkError: a net.Error, redis.ErrClosed, context.Canceled or
\* context.DeadlineExceeded
isNetworkError(err) == err \in {"network", "canceled", "deadline"}

\* which branch BufferLog takes on the result of bufferLogToRedis (lines 126-139)
AfterXAdd(res) ==
    CASE res = "ok" -> "return_nil"
      [] isNetworkError(res) -> "cas"
      [] OTHER -> "return_err"

\* BufferLog treating every append error as a lost connection
BufferLogXAdd_AllTransient(p) ==
    /\ pc[p] = "xadd"
    /\ \E res \in {"ok", "network", "fatal"} :
          /\ res = "ok" => redisUp
          /\ res = "network" => ~redisUp
          /\ stream' = IF res = "ok" THEN Append(stream, ev[p]) ELSE stream
          /\ isAvailable' = IF res = "fatal" THEN FALSE ELSE isAvailable
          /\ LET branch == AfterXAdd(res) IN
                /\ pc' = [pc EXCEPT ![p] = IF branch = "cas" THEN "cas" ELSE "idle"]
                /\ ev' = [ev EXCEPT ![p] = IF branch = "cas" THEN @ ELSE 0]
                /\ outcome' = [outcome EXCEPT ![ev[p]] =
                                  CASE branch = "return_nil" -> "buffer"
                                    [] branch = "return_err" -> "rejected"
                                    [] OTHER -> @]
    /\ UNCHANGED <<auxVars, envVars, consumerVars, hcPc, replayPos,
                   segments, currentSegment, currentSize, walLock>>

\* BufferLog line 125: bufferLogToRedis, with the result the buffer gives
BufferLogXAdd(p) ==
    /\ pc[p] = "xadd"
    /\ \E res \in {"ok", "network", "fatal"} :
          /\ res = "ok" => redisUp
          /\ res = "network" => ~redisUp
          /\ stream' = IF res = "ok" THEN Append(stream, ev[p]) ELSE stream
          /\ LET branch == AfterXAdd(res) IN
                /\ pc' = [pc EXCEPT ![p] = IF branch = "cas" THEN "cas" ELSE "idle"]
                /\ ev' = [ev EXCEPT ![p] = IF branch = "cas" THEN @ ELSE 0]
                /\ outcome' = [outcome EXCEPT ![ev[p]] =
                                  CASE branch = "return_nil" -> "buffer"
                                    [] branch = "return_err" -> "rejected"
                                    [] OTHER -> @]
    /\ UNCHANGED <<auxVars, envVars, consumerVars, isAvailable, hcPc, replayPos,
                   segments, currentSegment, currentSize, walLock>>

\* BufferLog line 125 when the context of the request ends during the XAdd:
\* the client went away or the deadline of the request passed, whatever the
\* state of the buffer; bufferLogToRedis returns the wrapped context error
BufferLogXAddCtx(p) ==
    /\ pc[p] = "xadd"
    /\ \E res \in {"canceled", "deadline"} :
          LET branch == AfterXAdd(res) IN
             /\ pc' = [pc EXCEPT ![p] = IF branch = "cas" THEN "cas" ELSE "idle"]
             /\ ev' = [ev EXCEPT ![p] = IF branch = "cas" THEN @ ELSE 0]
             /\ outcome' = [outcome EXCEPT ![ev[p]] =
                               CASE branch = "return_nil" -> "buffer"
                                 [] branch = "return_err" -> "rejected"
                                 [] OTHER -> @]
    /\ UNCHANGED <<auxVars, envVars, consumerVars, isAvailable, stream, hcPc, replayPos,
                   segments, currentSegment, currentSize, walLock>>

\* BufferLog storing false instead of swapping: every failing caller counts as
\* the one that lost the connection
BufferLogCAS_Store(p) ==
    /\ pc[p] = "cas"
    /\ isAvailable' = FALSE
    /\ lostBy' = "write"
    /\ pc' = [pc EXCEPT ![p] = "wal"]
    /\ UNCHANGED <<sideVars, envVars, consumerVars, stream, hcPc, replayPos, segments,
                   currentSegment, currentSize, walLock, ev, outcome>>

\* BufferLog line 128: r.isAvailable.CompareAndSwap(true, false); the caller
\* whose swap succeeds logs "Redis connection lost during write"
BufferLogCAS(p) ==
    /\ pc[p] = "cas"
    /\ isAvailable' = FALSE
    /\ lostBy' = IF isAvailable THEN "write" ELSE lostBy
    /\ pc' = [pc EXCEPT ![p] = "wal"]
    /\ UNCHANGED <<sideVars, envVars, consumerVars, stream, hcPc, replayPos, segments,
                   currentSegment, currentSize, walLock, ev, outcome>>

\* BufferLog dropping the error of wal.Write
WalResult_IgnoreErr(ok) == "wal"

\* what BufferLog returns for the result of wal.Write (lines 122, 135)
WalResult(ok) == IF ok THEN "wal" ELSE "backpressure"

\* wal.Write running its body without taking the lock of the WAL
BufferLogWAL_NoLock(p) ==
    /\ pc[p] = "wal"
    /\ LET r == Write(WalState, ev[p]) IN
          /\ SetWal(r.w)
          /\ outcome' = [outcome EXCEPT ![ev[p]] = WalResult(r.ok)]
    /\ pc' = [pc EXCEPT ![p] = "idle"]
    /\ ev' = [ev EXCEPT ![p] = 0]
    /\ UNCHANGED <<auxVars, envVars, consumerVars, isAvailable, stream, hcPc, replayPos, walLock>>

\* BufferLog lines 122/135: return r.wal.Write(ctx, event)
BufferLogWAL(p) ==
    /\ pc[p] = "wal"
    /\ walLock = "free"
    /\ LET r == Write(WalState, ev[p]) IN
          /\ SetWal(r.w)
          /\ outcome' = [outcome EXCEPT ![ev[p]] = WalResult(r.ok)]
    /\ pc' = [pc EXCEPT ![p] = "idle"]
    /\ ev' = [ev EXCEPT ![p] = 0]
    /\ UNCHANGED <<auxVars, envVars, consumerVars, isAvailable, stream, hcPc, replayPos, walLock>>

\* ---------------------------------------------------------------- StartHealthCheck
\* a tick handled while the ReplayWAL of an earlier tick is still running
HealthTick_Concurrent ==
    /\ IF ~redisUp
       THEN /\ isAvailable' = FALSE
            /\ lostBy' = IF isAvailable THEN "probe" ELSE lostBy
            /\ UNCHANGED hcPc
       ELSE IF ~isAvailable
            THEN /\ isAvailable' = TRUE
                 /\ lostBy' = "none"
                 /\ hcPc' = "replay"
            ELSE UNCHANGED <<isAvailable, lostBy, hcPc>>
    /\ UNCHANGED <<sideVars, envVars, consumerVars, stream, replayPos, segments, currentSegment,
                   currentSize, walLock, pc, ev, outcome>>

\* a tick that replays the WAL after every successful probe
HealthTick_ReplayAlways ==
    /\ hcPc = "idle"
    /\ IF ~redisUp
       THEN /\ isAvailable' = FALSE
            /\ lostBy' = IF isAvailable THEN "probe" ELSE lostBy
            /\ hcPc' = "idle"
       ELSE IF ~isAvailable
            THEN /\ isAvailable' = TRUE
                 /\ lostBy' = "none"
                 /\ hcPc' = "replay"
            ELSE /\ hcPc' = "replay"
                 /\ UNCHANGED <<isAvailable, lostBy>>
    /\ UNCHANGED <<sideVars, envVars, consumerVars, stream, replayPos, segments, currentSegment,
                   currentSize, walLock, pc, ev, outcome>>

\* one tick: Ping, then the CompareAndSwap of lines 72 / 76
HealthTick ==
    /\ hcPc = "idle"
    /\ IF ~redisUp
       THEN /\ isAvailable' = FALSE
            /\ lostBy' = IF isAvailable THEN "probe" ELSE lostBy
            /\ hcPc' = "idle"
       ELSE IF ~isAvailable
            THEN /\ isAvailable' = TRUE
                 /\ lostBy' = "none"
                 /\ hcPc' = "replay"
            ELSE UNCHANGED <<isAvailable, lostBy, hcPc>>
    /\ UNCHANGED <<sideVars, envVars, consumerVars, stream, replayPos, segments, currentSegment,
                   currentSize, walLock, pc, ev, outcome>>

\* Replay lines 100-117: lock, close the open segment, list the segments
ReplayBegin ==
    /\ hcPc = "replay"
    /\ walLock = "free"
    /\ currentSegment' = 0
    /\ replayPos' = 0
    /\ IF segments = <<>>
       THEN /\ hcPc' = "truncate"
            /\ walLock' = "free"
       ELSE /\ hcPc' = "replaying"
            /\ walLock' = "hc"
    /\ UNCHANGED <<auxVars, envVars, consumerVars, isAvailable, stream, segments, currentSize,
                   pc, ev, outcome>>

\* Replay lines 126-145: one line of a segment: the scanner fails on a line that
\* is too long, a line that does not parse is skipped, any other is handed to
\* the handler (bufferLogToRedis)
ReplayLine ==
    /\ hcPc = "replaying"
    /\ replayPos < Len(Flatten(segments))
    /\ LET l == Flatten(segments)[replayPos + 1] IN
          IF ~TooLong(l) /\ (~Parsable(l) \/ redisUp)
          THEN /\ stream' = IF Parsable(l) THEN Append(stream, l) ELSE stream
               /\ replayPos' = replayPos + 1
               /\ UNCHANGED <<hcPc, walLock>>
          ELSE /\ hcPc' = "failed"
               /\ walLock' = "free"
               /\ UNCHANGED <<stream, replayPos>>
    /\ UNCHANGED <<auxVars, envVars, consumerVars, isAvailable, segments, currentSegment,
                   currentSize, pc, ev, outcome>>

\* Replay lines 147-150: every segment scanned, unlock, return nil
ReplayEnd ==
    /\ hcPc = "replaying"
    /\ replayPos = Len(Flatten(segments))
    /\ hcPc' = "truncate"
    /\ walLock' = "free"
    /\ UNCHANGED <<auxVars, envVars, consumerVars, isAvailable, stream, replayPos, segments,
                   currentSegment, currentSize, pc, ev, outcome>>

\* ReplayWAL line 99: r.wal.Truncate(ctx), then back to the ticker
ReplayTruncate ==
    /\ hcPc = "truncate"
    /\ walLock = "free"
    /\ SetWal(Truncate(WalState))
    /\ hcPc' = "idle"
    /\ UNCHANGED <<auxVars, envVars, consumerVars, isAvailable, stream, replayPos, walLock,
                   pc, ev, outcome>>

\* the health check leaving the state as it is after a failed ReplayWAL
ReplayFailed_StayAvailable ==
    /\ hcPc = "failed"
    /\ hcPc' = "idle"
    /\ UNCHANGED <<auxVars, envVars, consumerVars, isAvailable, stream, replayPos, segments,
                   currentSegment, currentSize, walLock, pc, ev, outcome>>

\* StartHealthCheck line 80: r.isAvailable.Store(false) after a failed ReplayWAL
ReplayFailed ==
    /\ hcPc = "failed"
    /\ isAvailable' = FALSE
    /\ lostBy' = IF isAvailable THEN "probe" ELSE lostBy
    /\ hcPc' = "idle"
    /\ UNCHANGED <<sideVars, envVars, consumerVars, stream, replayPos, segments, currentSegment,
                   currentSize, walLock, pc, ev, outcome>>

\* ---------------------------------------------------------------- StartHealthCheck, storing variant
\* one tick of the health check that loads the state before the Ping: a
\* recovery starts ReplayWAL with the state left UNAVAILABLE, a loss stores false
HealthTickStore ==
    /\ hcPc = "idle"
    /\ LET wasAvailable == isAvailable
           isCurrentlyAvailable == redisUp
       IN IF isCurrentlyAvailable /\ ~wasAvailable
          THEN /\ hcPc' = "replay"
               /\ UNCHANGED <<isAvailable, lostBy>>
          ELSE IF ~isCurrentlyAvailable /\ wasAvailable
               THEN /\ isAvailable' = FALSE
                    /\ lostBy' = "probe"
                    /\ hcPc' = "idle"
               ELSE UNCHANGED <<isAvailable, lostBy, hcPc>>
    /\ UNCHANGED <<sideVars, envVars, consumerVars, stream, replayPos, segments, currentSegment,
                   currentSize, walLock, pc, ev, outcome>>

\* ReplayWAL: r.wal.Truncate(ctx) after a successful Replay, then return nil
ReplayTruncateStore ==
    /\ hcPc = "truncate"
    /\ walLock = "free"
    /\ SetWal(Truncate(WalState))
    /\ hcPc' = "publish"
    /\ UNCHANGED <<auxVars, envVars, consumerVars, isAvailable, stream, replayPos, walLock,
                   pc, ev, outcome>>

\* r.isAvailable.Store(true) after ReplayWAL returned nil
StoreAvailable ==
    /\ hcPc = "publish"
    /\ isAvailable' = TRUE
    /\ lostBy' = "none"
    /\ hcPc' = "idle"
    /\ UNCHANGED <<sideVars, envVars, consumerVars, stream, replayPos, segments, currentSegment,
                   currentSize, walLock, pc, ev, outcome>>

\* a failed ReplayWAL is logged and the state stays UNAVAILABLE
ReplayFailedLogged ==
    /\ hcPc = "failed"
    /\ hcPc' = "idle"
    /\ UNCHANGED <<auxVars, envVars, consumerVars, isAvailable, stream, replayPos, segments,
                   currentSegment, currentSize, walLock, pc, ev, outcome>>


\* ---------------------------------------------------------------- consumer environment
\* the sink starts failing WriteLogBatch
SinkDown ==
    /\ sinkUp
    /\ sinkUp' = FALSE
    /\ UNCHANGED <<auxVars, envVars, ingestVars, retryCount, cancelled, lastDelivered, pending,
                   sink, dlq, cpc, batch, attempt, lastErr, calls, sleeps, status,
                   trail, result>>

\* the sink accepts WriteLogBatch again
SinkRecover ==
    /\ ~sinkUp
    /\ sinkUp' = TRUE
    /\ UNCHANGED <<auxVars, envVars, ingestVars, retryCount, cancelled, lastDelivered, pending,
                   sink, dlq, cpc, batch, attempt, lastErr, calls, sleeps, status,
                   trail, result>>

\* cmd/consumer: the shutdown signal cancels the context handed to ProcessBatch
Cancel ==
    /\ ~cancelled
    /\ cancelled' = TRUE
    /\ UNCHANGED <<auxVars, envVars, ingestVars, retryCount, sinkUp, lastDelivered, pending,
                   sink, dlq, cpc, batch, attempt, lastErr, calls, sleeps, status,
                   trail, result>>

\* two messages of the batch in hand carry the same event id, so the upsert of
\* WriteLogBatch fails
BatchHasDuplicate ==
    \E i, j \in 1..Len(batch) : i < j /\ stream[batch[i]] = stream[batch[j]]

\* a call on the buffer can succeed / can fail; a call made with a cancelled
\* context may do either; WriteLogBatch fails on a batch with a duplicate id
BufferCallOk == redisUp
BufferCallErr == ~redisUp \/ cancelled
SinkCallOk == sinkUp /\ ~BatchHasDuplicate
SinkCallErr == ~sinkUp \/ cancelled \/ BatchHasDuplicate

\* ---------------------------------------------------------------- ProcessBatch
\* message ids ReadLogBatch delivers: the next entries after the group cursor (">")
ReadIds ==
    LET n == IF Len(stream) - lastDelivered < defaultBatchSize
             THEN Len(stream) - lastDelivered ELSE defaultBatchSize
    IN [i \in 1..n |-> lastDelivered + i]

\* a stream entry whose "payload" value is a string that json.Unmarshal takes;
\* an entry written by anything but bufferLogToRedis may be 0: no such value
PayloadOk(v) == v > 0

\* ReadLogBatch lines 181-199: the messages whose payload decodes become the
\* events returned, the others are logged and skipped
Decoded(ids) == SelectSeq(ids, LAMBDA m : PayloadOk(stream[m]))

\* events of the batch in hand
BatchEvents == {stream[batch[i]] : i \in 1..Len(batch)}

\* ProcessBatch lines 43-53: ReadLogBatch and the two early returns
ProcessBatchRead ==
    /\ cpc = "idle"
    /\ attempt' = 0
    /\ lastErr' = "nil"
    /\ calls' = 0
    /\ sleeps' = <<>>
    /\ trail' = <<>>
    /\ \/ /\ BufferCallErr
          /\ result' = <<0, "read">>
          /\ batch' = <<>>
          /\ status' = "NONE"
          /\ UNCHANGED <<cpc, lastDelivered, pending>>
       \/ /\ BufferCallOk
          /\ batch' = Decoded(ReadIds)
          /\ lastDelivered' = lastDelivered + Len(ReadIds)
          /\ pending' = pending \cup Range(ReadIds)
          /\ IF Len(Decoded(ReadIds)) = 0
             THEN /\ result' = <<0, "nil">>
                  /\ status' = "NONE"
                  /\ UNCHANGED cpc
             ELSE /\ result' = <<0, "running">>
                  /\ status' = "READ"
                  /\ cpc' = "loop"
    /\ UNCHANGED <<auxVars, envVars, ingestVars, retryCount, sinkUp, cancelled, sink, dlq>>

\* the exponent counted from 1 instead of 0
Delay_OffByOne(i) == RetryBackoff * (2 ^ (i + 1))

\* writeWithRetry line 93: delay before the next attempt, i counted from 0
Delay(i) == RetryBackoff * (2 ^ i)

\* writeWithRetry line 81: the loop condition
LoopCond(i) == i < retryCount

\* writeWithRetry line 88: leave the loop after a failed attempt
BreakCond(i) == i = retryCount - 1 \/ cancelled

\* ProcessBatch lines 55-56: where writeWithRetry's error leads
AfterRetry(err) == IF err = "nil" THEN "ack" ELSE "dlq"

\* writeWithRetry lines 81-95: loop head, one WriteLogBatch call, what follows it
WriteAttempt ==
    /\ cpc = "loop"
    /\ IF LoopCond(attempt)
       THEN /\ calls' = calls + 1
            /\ \/ /\ SinkCallOk
                  /\ sink' = sink \cup BatchEvents
                  /\ status' = "SUNK"
                  /\ cpc' = AfterRetry("nil")
                  /\ UNCHANGED <<lastErr, sleeps>>
               \/ /\ SinkCallErr
                  /\ lastErr' = "sink"
                  /\ status' = "WRITING"
                  /\ IF BreakCond(attempt)
                     THEN /\ cpc' = AfterRetry("sink")
                          /\ UNCHANGED sleeps
                     ELSE /\ cpc' = "sleep"
                          /\ sleeps' = Append(sleeps, Delay(attempt))
                  /\ UNCHANGED sink
       ELSE /\ cpc' = AfterRetry(lastErr)
            /\ UNCHANGED <<calls, sink, status, lastErr, sleeps>>
    /\ UNCHANGED <<auxVars, envVars, ingestVars, retryCount, sinkUp, cancelled, lastDelivered,
                   pending, dlq, batch, attempt, trail, result>>

\* writeWithRetry lines 96-100: select on the timer and on ctx.Done()
BackoffSleep ==
    /\ cpc = "sleep"
    /\ IF cancelled
       THEN /\ lastErr' = "ctx"
            /\ cpc' = AfterRetry("ctx")
            /\ UNCHANGED attempt
       ELSE /\ attempt' = attempt + 1
            /\ cpc' = "loop"
            /\ UNCHANGED lastErr
    /\ UNCHANGED <<auxVars, envVars, ingestVars, retryCount, sinkUp, cancelled, lastDelivered,
                   pending, sink, dlq, batch, calls, sleeps, status, trail, result>>

\* ProcessBatch going on to the acknowledgement whatever MoveToDLQ returned
AfterDLQ_IgnoreErr(ok) == "ack"

\* ProcessBatch lines 58-61: where MoveToDLQ's result leads
AfterDLQ(ok) == IF ok THEN "ack" ELSE "idle"

\* ProcessBatch lines 57-62: MoveToDLQ
MoveToDLQ ==
    /\ cpc = "dlq"
    /\ trail' = Append(trail, "dlq")
    /\ \/ /\ BufferCallOk
          /\ dlq' = dlq \o [i \in 1..Len(batch) |-> stream[batch[i]]]
          /\ status' = "DLQED"
          /\ cpc' = AfterDLQ(TRUE)
          /\ result' = IF AfterDLQ(TRUE) = "idle" THEN <<0, "dlq">> ELSE result
       \/ /\ BufferCallErr
          /\ cpc' = AfterDLQ(FALSE)
          /\ result' = IF AfterDLQ(FALSE) = "idle" THEN <<0, "dlq">> ELSE result
          /\ UNCHANGED <<dlq, status>>
    /\ UNCHANGED <<auxVars, envVars, ingestVars, retryCount, sinkUp, cancelled, lastDelivered,
                   pending, sink, batch, attempt, lastErr, calls, sleeps>>

\* ProcessBatch lines 64-75: AcknowledgeLogs and the return
AcknowledgeLogs ==
    /\ cpc = "ack"
    /\ trail' = Append(trail, "ack")
    /\ cpc' = "idle"
    /\ \/ /\ BufferCallOk
          /\ pending' = pending \ Range(batch)
          /\ status' = "ACKED"
          /\ result' = <<Len(batch), "nil">>
       \/ /\ BufferCallErr
          /\ result' = <<0, "ack">>
          /\ UNCHANGED <<pending, status>>
    /\ UNCHANGED <<auxVars, envVars, ingestVars, retryCount, sinkUp, cancelled, lastDelivered,
                   sink, dlq, batch, attempt, lastErr, calls, sleeps>>

\* ---------------------------------------------------------------- postgres LogRepository
Ids == 1..MaxIds
Cols == 1..MaxCols
\* a row of logs: the event_id and the other columns as one value
Rows == [id : Ids, cols : Cols]
RowIds(rows) == {rows[i].id : i \in 1..Len(rows)}

\* two rows of logs_temp_import carry the same event_id: the upsert would have
\* to update one row of logs twice in one statement, which postgres refuses
\* ("ON CONFLICT DO UPDATE command cannot affect row a second time")
HasDuplicateId(rows) ==
    \E i, j \in 1..Len(rows) : i < j /\ rows[i].id = rows[j].id

\* INSERT INTO logs ... SELECT ... FROM logs_temp_import
\* ON CONFLICT (event_id) DO UPDATE SET <every column> = EXCLUDED.<column>
Upsert(tbl, rows) ==
    {r \in tbl : r.id \notin RowIds(rows)} \cup Range(rows)

\* the writes of the failed transaction staying in the table
Rollback_KeepWrites(committed, seen) == seen

\* defer txn.Rollback(): the logs table is what it was before BeginTx
Rollback(committed, seen) == committed

\* WriteLogBatch returning an error from position at
WriteLogBatchFail(at, err) ==
    /\ txPc = at
    /\ table' = Rollback(table, txTable)
    /\ txTable' = table'
    /\ staging' = <<>>
    /\ txPc' = "idle"
    /\ wres' = err
    /\ UNCHANGED <<wbatch, tableBefore>>
    /\ UNCHANGED <<envVars, ingestVars, consumerVars, walAuxVars, availVars, httpVars, cacheVars>>

\* WriteLogBatch lines 26-33: the empty batch returns nil, any other begins a
\* transaction; the events of the batch are told as the COPY loop reaches them
WriteLogBatchBegin(empty) ==
    /\ txPc = "idle"
    /\ wbatch' = <<>>
    /\ tableBefore' = table
    /\ txTable' = table
    /\ staging' = <<>>
    /\ IF empty
       THEN /\ wres' = "nil"
            /\ txPc' = "idle"
       ELSE \/ /\ wres' = "running"
               /\ txPc' = "begun"
            \/ /\ wres' = "err_begin"
               /\ txPc' = "idle"
    /\ UNCHANGED table
    /\ UNCHANGED <<envVars, ingestVars, consumerVars, walAuxVars, availVars, httpVars, cacheVars>>

\* WriteLogBatch lines 38-47: CREATE TEMP TABLE logs_temp_import, prepare the COPY
CreateTempTable ==
    \/ /\ txPc = "begun"
       /\ txPc' = "temp"
       /\ UNCHANGED <<table, txTable, staging, wbatch, wres, tableBefore>>
       /\ UNCHANGED <<envVars, ingestVars, consumerVars, walAuxVars, availVars, httpVars, cacheVars>>
    \/ WriteLogBatchFail("begun", "err_temp")

\* WriteLogBatch lines 49-56: one turn of the loop, copying the next event r of
\* the batch into logs_temp_import
CopyIn(r) ==
    \/ /\ txPc = "temp"
       /\ Len(wbatch) < MaxBatchLen
       /\ wbatch' = Append(wbatch, r)
       /\ staging' = Append(staging, r)
       /\ UNCHANGED <<table, txTable, txPc, wres, tableBefore>>
       /\ UNCHANGED <<envVars, ingestVars, consumerVars, walAuxVars, availVars, httpVars, cacheVars>>
    \/ /\ Len(wbatch) < MaxBatchLen
       /\ WriteLogBatchFail("temp", "err_copy")

\* WriteLogBatch lines 58-77: the loop is over, close the COPY, then the upsert
\* from logs_temp_import into logs
UpsertLogs ==
    \/ /\ txPc = "temp"
       /\ Len(wbatch) >= 1
       /\ ~HasDuplicateId(staging)
       /\ txTable' = Upsert(txTable, staging)
       /\ txPc' = "upserted"
       /\ UNCHANGED <<table, staging, wbatch, wres, tableBefore>>
       /\ UNCHANGED <<envVars, ingestVars, consumerVars, walAuxVars, availVars, httpVars, cacheVars>>
    \/ /\ Len(wbatch) >= 1
       /\ HasDuplicateId(staging)
       /\ WriteLogBatchFail("temp", "conflict")
    \/ /\ Len(wbatch) >= 1
       /\ WriteLogBatchFail("temp", "err_upsert")

\* WriteLogBatch line 79: return txn.Commit()
Commit ==
    \/ /\ txPc = "upserted"
       /\ table' = txTable
       /\ staging' = <<>>
       /\ txPc' = "idle"
       /\ wres' = "nil"
       /\ UNCHANGED <<txTable, wbatch, tableBefore>>
       /\ UNCHANGED <<envVars, ingestVars, consumerVars, walAuxVars, availVars, httpVars, cacheVars>>
    \/ WriteLogBatchFail("upserted", "err_commit")

\* ---------------------------------------------------------------- WALRepository, called directly
RECURSIVE Scan(_, _, _)
\* Replay lines 119-150 over the lines still to scan, segment after segment:
\* h holds the events the handler was invoked with so far, failAt is the
\* invocation that returns an error (0: none does)
Scan(lines, h, failAt) ==
    IF lines = <<>> THEN [handled |-> h, result |-> "nil"]
    ELSE LET l == Head(lines) IN
         IF TooLong(l) THEN [handled |-> h, result |-> "scan"]
         ELSE IF ~Parsable(l) THEN Scan(Tail(lines), h, failAt)
         ELSE IF Len(h) + 1 = failAt
              THEN [handled |-> Append(h, l), result |-> "handler"]
              ELSE Scan(Tail(lines), Append(h, l), failAt)

\* Write(ctx, event)
WalWrite(e) ==
    /\ LET r == Write(WalState, e) IN
          /\ Len(r.w.segments) <= MaxSegments
          /\ SetWal(r.w)
          /\ written' = IF r.ok THEN Append(written, e) ELSE written
          /\ walOp' = [name |-> "Write", arg |-> e, ok |-> r.ok, before |-> segments]
    /\ UNCHANGED <<handled, replayResult>>
    /\ UNCHANGED <<envVars, consumerVars, sinkVars, availVars, httpVars, cacheVars, isAvailable, stream, hcPc,
                   replayPos, walLock, pc, ev, outcome>>

\* Replay(ctx, handler), the handler failing at its failAt-th invocation
WalReplay ==
    /\ \E failAt \in 0..Len(Flatten(segments)) :
          LET r == Scan(Flatten(segments), <<>>, failAt) IN
             /\ handled' = r.handled
             /\ replayResult' = r.result
             /\ walOp' = [name |-> "Replay", arg |-> failAt, ok |-> r.result = "nil",
                          before |-> segments]
    /\ currentSegment' = 0
    /\ UNCHANGED <<segments, currentSize, written>>
    /\ UNCHANGED <<envVars, consumerVars, sinkVars, availVars, httpVars, cacheVars, isAvailable, stream, hcPc,
                   replayPos, walLock, pc, ev, outcome>>

\* Truncate(ctx)
WalTruncate ==
    /\ SetWal(Truncate(WalState))
    /\ written' = <<>>
    /\ walOp' = [name |-> "Truncate", arg |-> 0, ok |-> TRUE, before |-> segments]
    /\ UNCHANGED <<handled, replayResult>>
    /\ UNCHANGED <<envVars, consumerVars, sinkVars, availVars, httpVars, cacheVars, isAvailable, stream, hcPc,
                   replayPos, walLock, pc, ev, outcome>>

\* process restart: Close(), then NewWALRepository on the same directory
WalOpen ==
    /\ Len(openLatestSegment(WalState).segments) <= MaxSegments
    /\ SetWal(openLatestSegment(WalState))
    /\ walOp' = [name |-> "Open", arg |-> 0, ok |-> TRUE, before |-> segments]
    /\ UNCHANGED <<handled, replayResult, written>>
    /\ UNCHANGED <<envVars, consumerVars, sinkVars, availVars, httpVars, cacheVars, isAvailable, stream, hcPc,
                   replayPos, walLock, pc, ev, outcome>>

\* the process dies inside Write line 83, part of the line being in the file,
\* and is started again (NewWALRepository)
WalCrash(e) ==
    /\ LET w == IF currentSegment = 0 THEN rotate(WalState) ELSE WalState
           lines == w.segments[w.currentSegment]
           after == openLatestSegment(
                        [w EXCEPT !.segments[w.currentSegment] = Append(@, Torn(e))])
       IN /\ calculateTotalSize(w.segments) + LineSize(e) <= MaxTotalSize
          /\ IF lines = <<>> THEN TRUE ELSE ~IsTorn(lines[Len(lines)])
          /\ Len(after.segments) <= MaxSegments
          /\ SetWal(after)
    /\ walOp' = [name |-> "Crash", arg |-> e, ok |-> FALSE, before |-> segments]
    /\ UNCHANGED <<handled, replayResult, written>>
    /\ UNCHANGED <<envVars, consumerVars, sinkVars, availVars, httpVars, cacheVars, isAvailable, stream, hcPc,
                   replayPos, walLock, pc, ev, outcome>>

\* ---------------------------------------------------------------- IngestLogUseCase
\* what BufferLog returns for an event: nil, the error of the buffer, or the
\* error of the WAL when it is full as well
BufferLogResults == {"nil", "rejected", "backpressure"}

\* the id of a payload whose event_id is not empty and not a well-formed id
BadId == 0 - 1

\* a line of a request body: a well-formed event (kind "long": one whose line
\* is longer than the scanner's token limit) with the id the client supplied
\* (0: empty) and the result BufferLog will give for it, a JSON object without
\* a message, a JSON object whose id is malformed, a line that is not JSON, or
\* a blank line
BodyLines ==
    [kind : {"event", "long"}, id : 0..MaxIds, res : BufferLogResults]
        \cup [kind : {"nomessage"}, id : {0}, res : BufferLogResults]
        \cup [kind : {"badid"}, id : {BadId}, res : BufferLogResults]
        \cup [kind : {"malformed", "empty"}, id : {0}, res : {"nil"}]

\* json.Unmarshal into domain.LogEvent returns nil for the line
Unmarshals(l) == l.kind \notin {"malformed", "empty"}

\* uuid.NewString(): an id no client supplied and no earlier call minted
NewId(n) == MaxIds + n + 1

\* the Ingest calls among done that minted an id
Minted(done) == Cardinality({i \in 1..Len(done) : done[i].in = 0})

\* Ingest minting an id whatever the client supplied
Ingest_AlwaysMint(line, n) ==
    LET id == NewId(n)
    IN [in |-> line.id,
        handed |-> << [id |-> id, receivedAt |-> "now",
                       message |-> line.kind # "nomessage"] >>,
        bufferRes |-> line.res,
        err |-> line.res]

\* IngestLogUseCase.Ingest for the event of one line, n ids minted before:
\* the event handed to BufferLog and the error returned
Ingest(line, n) ==
    LET id == IF line.id = 0 THEN NewId(n) ELSE line.id
    IN [in |-> line.id,
        handed |-> << [id |-> id, receivedAt |-> "now",
                       message |-> line.kind # "nomessage"] >>,
        bufferRes |-> line.res,
        err |-> line.res]

\* ---------------------------------------------------------------- IngestHandler
ContentTypes == {"application/json", "application/x-ndjson", "text/plain"}

\* a request: cut is -1 when the body is within maxEventSize, else the number
\* of whole lines the MaxBytesReader lets through before it fails
Requests(n) ==
    [method : {"POST", "GET"}, contentType : ContentTypes,
     lines : [1..n -> BodyLines], cut : -1..n]

NoRequest == [method |-> "none", contentType |-> "none", lines |-> <<>>, cut |-> -1]

\* handleSingleJSON: io.ReadAll, json.Unmarshal of the whole body, Ingest
handleSingleJSON(req) ==
    IF req.cut # -1
    THEN [err |-> "maxbytes", calls |-> <<>>]
    ELSE IF Len(req.lines) # 1 \/ ~Unmarshals(req.lines[1])
         THEN [err |-> "decode", calls |-> <<>>]
         ELSE LET c == Ingest(req.lines[1], 0)
              IN [err |-> IF c.err = "nil" THEN "nil" ELSE "ingest", calls |-> <<c>>]

\* the scanner loop of handleNDJSON from line i on: a blank line and a line
\* that does not parse are skipped, an Ingest error is logged and the loop goes
\* on, a line over the token limit ends the scan with an error
RECURSIVE ScanLines(_, _, _)
ScanLines(lines, i, done) ==
    IF i > Len(lines)
    THEN [err |-> "nil", calls |-> done]
    ELSE LET l == lines[i]
         IN CASE l.kind = "long" -> [err |-> "toolong", calls |-> done]
              [] ~Unmarshals(l) -> ScanLines(lines, i + 1, done)
              [] OTHER -> ScanLines(lines, i + 1,
                                    Append(done, Ingest(l, Minted(done))))

\* handleNDJSON: the lines read before the size limit are scanned, then
\* scanner.Err() gives the error of the MaxBytesReader
handleNDJSON(req) ==
    LET read == IF req.cut = -1 THEN req.lines ELSE SubSeq(req.lines, 1, req.cut)
        r == ScanLines(read, 1, <<>>)
    IN IF r.err = "nil" /\ req.cut # -1
       THEN [err |-> "maxbytes", calls |-> r.calls]
       ELSE r

\* ServeHTTP lines 68-80: the status code for what the body handler returned
StatusFor(err) ==
    CASE err = "nil" -> 202
      [] err = "maxbytes" -> 413
      [] OTHER -> 400

\* ServeHTTP: one request from the method check to the status code
ServeHTTP(req) ==
    /\ request = NoRequest
    /\ request' = req
    /\ IF req.method # "POST"
       THEN /\ response' = 405
            /\ ingested' = <<>>
       ELSE IF req.contentType = "application/json"
            THEN LET r == handleSingleJSON(req)
                 IN /\ response' = StatusFor(r.err)
                    /\ ingested' = r.calls
            ELSE IF req.contentType = "application/x-ndjson"
                 THEN LET r == handleNDJSON(req)
                      IN /\ response' = StatusFor(r.err)
                         /\ ingested' = r.calls
                 ELSE /\ response' = 415
                      /\ ingested' = <<>>
    /\ UNCHANGED <<envVars, ingestVars, consumerVars, walAuxVars, sinkVars, availVars, cacheVars>>

\* the response has been sent: the handler keeps nothing of the request
ServeHTTPReturn ==
    /\ request # NoRequest
    /\ request' = NoRequest
    /\ response' = 0
    /\ ingested' = <<>>
    /\ UNCHANGED <<envVars, ingestVars, consumerVars, walAuxVars, sinkVars, availVars, cacheVars>>

\* ---------------------------------------------------------------- APIKeyRepository
Callers == 1..MaxCallers
Keys == 1..MaxKeys

\* no entry in the map (found = false)
NoEntry == [isValid |-> FALSE, expiresAt |-> 0 - 1]
NoResult == [from |-> "none", isValid |-> FALSE]

\* found && time.Now().Before(entry.expiresAt)
Fresh(entry, t) == entry # NoEntry /\ t < entry.expiresAt

\* IsValid lines 44-46: read the entry under the read lock
IsValidRead(c, k) ==
    /\ apc[c] = "idle"
    /\ cacheMu = 0
    /\ akey' = [akey EXCEPT ![c] = k]
    /\ aentry' = [aentry EXCEPT ![c] = cache[k]]
    /\ ares' = [ares EXCEPT ![c] = NoResult]
    /\ apc' = [apc EXCEPT ![c] = "check"]
    /\ UNCHANGED <<cache, now, cacheMu>>
    /\ UNCHANGED <<envVars, ingestVars, consumerVars, walAuxVars, sinkVars, availVars, httpVars>>

\* IsValid lines 48-53: a hit returns the cached value, a miss goes for the lock
IsValidCheck(c) ==
    /\ apc[c] = "check"
    /\ IF Fresh(aentry[c], now)
       THEN /\ ares' = [ares EXCEPT ![c] = [from |-> "cache", isValid |-> aentry[c].isValid]]
            /\ apc' = [apc EXCEPT ![c] = "idle"]
            /\ akey' = [akey EXCEPT ![c] = 0]
       ELSE /\ apc' = [apc EXCEPT ![c] = "lock"]
            /\ UNCHANGED <<ares, akey>>
    /\ aentry' = [aentry EXCEPT ![c] = NoEntry]
    /\ UNCHANGED <<cache, now, cacheMu>>
    /\ UNCHANGED <<envVars, ingestVars, consumerVars, walAuxVars, sinkVars, availVars, httpVars>>

\* IsValid line 60: r.mu.Lock()
IsValidLock(c) ==
    /\ apc[c] = "lock"
    /\ cacheMu = 0
    /\ cacheMu' = c
    /\ apc' = [apc EXCEPT ![c] = "recheck"]
    /\ UNCHANGED <<cache, now, akey, aentry, ares>>
    /\ UNCHANGED <<envVars, ingestVars, consumerVars, walAuxVars, sinkVars, availVars, httpVars>>

\* IsValid querying the database without looking at the cache again
IsValidRecheck_NoDoubleCheck(c) ==
    /\ apc[c] = "recheck"
    /\ apc' = [apc EXCEPT ![c] = "query"]
    /\ UNCHANGED <<ares, akey, cacheMu>>
    /\ UNCHANGED <<cache, now, aentry>>
    /\ UNCHANGED <<envVars, ingestVars, consumerVars, walAuxVars, sinkVars, availVars, httpVars>>

\* IsValid lines 63-67: look at the cache again under the write lock
IsValidRecheck(c) ==
    /\ apc[c] = "recheck"
    /\ IF Fresh(cache[akey[c]], now)
       THEN /\ ares' = [ares EXCEPT ![c] =
                          [from |-> "cache", isValid |-> cache[akey[c]].isValid]]
            /\ apc' = [apc EXCEPT ![c] = "idle"]
            /\ akey' = [akey EXCEPT ![c] = 0]
            /\ cacheMu' = 0
       ELSE /\ apc' = [apc EXCEPT ![c] = "query"]
            /\ UNCHANGED <<ares, akey, cacheMu>>
    /\ UNCHANGED <<cache, now, aentry>>
    /\ UNCHANGED <<envVars, ingestVars, consumerVars, walAuxVars, sinkVars, availVars, httpVars>>

\* IsValid lines 69-86: the query, which fails or says whether the key is
\* valid; only an answer is put into the cache
IsValidQuery(c) ==
    /\ apc[c] = "query"
    /\ \E r \in {"err", "valid", "invalid"} :
          IF r = "err"
          THEN /\ ares' = [ares EXCEPT ![c] = [from |-> "err", isValid |-> FALSE]]
               /\ UNCHANGED cache
          ELSE /\ ares' = [ares EXCEPT ![c] = [from |-> "db", isValid |-> r = "valid"]]
               /\ cache' = [cache EXCEPT ![akey[c]] =
                               [isValid |-> r = "valid", expiresAt |-> now + cacheTTL]]
    /\ apc' = [apc EXCEPT ![c] = "idle"]
    /\ akey' = [akey EXCEPT ![c] = 0]
    /\ cacheMu' = 0
    /\ UNCHANGED <<now, aentry>>
    /\ UNCHANGED <<envVars, ingestVars, consumerVars, walAuxVars, sinkVars, availVars, httpVars>>

\* time passes
Tick ==
    /\ now < MaxTime
    /\ now' = now + 1
    /\ UNCHANGED <<cache, cacheMu, apc, akey, aentry, ares>>
    /\ UNCHANGED <<envVars, ingestVars, consumerVars, walAuxVars, sinkVars, availVars, httpVars>>

\* ---------------------------------------------------------------- specifications
InitAux ==
    /\ handled = <<>>
    /\ replayResult = "none"
    /\ written = <<>>
    /\ walOp = [name |-> "none", arg |-> 0, ok |-> TRUE, before |-> <<>>]
    /\ table = {}
    /\ txTable = {}
    /\ staging = <<>>
    /\ wbatch = <<>>
    /\ txPc = "idle"
    /\ wres = "none"
    /\ tableBefore = {}
    /\ request = NoRequest
    /\ response = 0
    /\ ingested = <<>>
    /\ cache = [k \in Keys |-> NoEntry]
    /\ now = 0
    /\ cacheMu = 0
    /\ apc = [c \in Callers |-> "idle"]
    /\ akey = [c \in Callers |-> 0]
    /\ aentry = [c \in Callers |-> NoEntry]
    /\ ares = [c \in Callers |-> NoResult]

InitIngest ==
    /\ redisUp \in BOOLEAN
    /\ outages = 0
    /\ isAvailable = redisUp
    /\ lostBy = IF redisUp THEN "none" ELSE "probe"
    /\ stream = <<>>
    /\ hcPc = "idle"
    /\ replayPos = 0
    /\ segments = << <<>> >>
    /\ currentSegment = 1
    /\ currentSize = 0
    /\ walLock = "free"
    /\ pc = [p \in Procs |-> "idle"]
    /\ ev = [p \in Procs |-> 0]
    /\ outcome = [e \in Events |-> "new"]

InitConsumer ==
    /\ sinkUp = TRUE
    /\ cancelled = FALSE
    /\ lastDelivered = 0
    /\ pending = {}
    /\ sink = {}
    /\ dlq = <<>>
    /\ cpc = "idle"
    /\ batch = <<>>
    /\ attempt = 0
    /\ lastErr = "nil"
    /\ calls = 0
    /\ sleeps = <<>>
    /\ status = "NONE"
    /\ trail = <<>>
    /\ result = <<0, "nil">>

\* the ingest service after NewWALRepository and NewLogRepository
Init ==
    /\ InitIngest
    /\ InitConsumer
    /\ InitAux
    /\ retryCount = MaxRetry

IngestNext ==
    \/ \E p \in Procs : BufferLogLoad(p)
    \/ \E p \in Procs : BufferLogXAdd(p)
    \/ \E p \in Procs : BufferLogCAS(p)
    \/ \E p \in Procs : BufferLogWAL(p)
    \/ HealthTick
    \/ ReplayBegin
    \/ ReplayLine
    \/ ReplayEnd
    \/ ReplayTruncate
    \/ ReplayFailed

Next ==
    \/ RedisDown
    \/ RedisRecover
    \/ IngestNext

\* the ingest service: concurrent BufferLog calls, the health check, the buffer
\* going down and coming back
Spec == Init /\ [][Next]_vars

\* the consumer worker started on a stream that already holds events
ConsumerInit ==
    /\ InitConsumer
    /\ InitAux
    /\ retryCount \in 0..MaxRetry
    /\ redisUp = TRUE
    /\ outages = 0
    /\ isAvailable = TRUE
    /\ lostBy = "none"
    /\ \E n \in 0..MaxPreload :
          /\ n <= MaxEvents
          /\ stream = [i \in 1..n |-> i]
          /\ outcome = [e \in Events |-> IF e <= n THEN "buffer" ELSE "new"]
    /\ hcPc = "idle"
    /\ replayPos = 0
    /\ segments = << <<>> >>
    /\ currentSegment = 1
    /\ currentSize = 0
    /\ walLock = "free"
    /\ pc = [p \in Procs |-> "idle"]
    /\ ev = [p \in Procs |-> 0]

ConsumerNext ==
    \/ RedisDown
    \/ RedisRecover
    \/ SinkDown
    \/ SinkRecover
    \/ Cancel
    \/ ProcessBatchRead
    \/ WriteAttempt
    \/ BackoffSleep
    \/ MoveToDLQ
    \/ AcknowledgeLogs

ConsumerSpec == ConsumerInit /\ [][ConsumerNext]_vars


\* the consumer worker started on a stream in which some entries carry no
\* payload that decodes
PoisonInit ==
    /\ InitConsumer
    /\ InitAux
    /\ retryCount \in 0..MaxRetry
    /\ redisUp = TRUE
    /\ outages = 0
    /\ isAvailable = TRUE
    /\ lostBy = "none"
    /\ \E n \in 0..MaxPreload : \E bad \in SUBSET (1..n) :
          /\ n <= MaxEvents
          /\ stream = [i \in 1..n |-> IF i \in bad THEN 0 ELSE i]
          /\ outcome = [e \in Events |->
                           IF e <= n /\ e \notin bad THEN "buffer" ELSE "new"]
    /\ hcPc = "idle"
    /\ replayPos = 0
    /\ segments = << <<>> >>
    /\ currentSegment = 1
    /\ currentSize = 0
    /\ walLock = "free"
    /\ pc = [p \in Procs |-> "idle"]
    /\ ev = [p \in Procs |-> 0]

PoisonSpec == PoisonInit /\ [][ConsumerNext]_vars

\* the WAL alone, after NewWALRepository on an empty directory: its caller
\* writes, replays, truncates, restarts and crashes in any order
WalInit ==
    /\ Init
    /\ redisUp = TRUE

WalNext ==
    \/ \E e \in WalInputs : WalWrite(e)
    \/ WalReplay
    \/ WalTruncate
    \/ WalOpen
    \/ \E e \in WalInputs : WalCrash(e)

WalSpec == WalInit /\ [][WalNext]_vars

\* the sink alone: WriteLogBatch called with any batch of at most MaxBatchLen
\* events, one call at a time,
\* every statement free to fail
SinkNext ==
    \/ \E empty \in BOOLEAN : WriteLogBatchBegin(empty)
    \/ CreateTempTable
    \/ \E r \in Rows : CopyIn(r)
    \/ UpsertLogs
    \/ Commit

SinkSpec == WalInit /\ [][SinkNext]_vars

\* the ingest endpoint alone: any request, the use case returning any result
\* for each event
HandlerNext ==
    \/ /\ request = NoRequest
       /\ \E n \in 0..MaxLines : \E req \in Requests(n) : ServeHTTP(req)
    \/ ServeHTTPReturn

HandlerSpec == WalInit /\ [][HandlerNext]_vars

\* the WAL after the events of ws were written one after another, and whether
\* every Write returned nil
RECURSIVE WriteAll(_, _)
WriteAll(w, ws) ==
    IF ws = <<>> THEN [w |-> w, ok |-> TRUE]
    ELSE LET r == Write(w, Head(ws))
             rest == WriteAll(r.w, Tail(ws))
         IN [w |-> rest.w, ok |-> r.ok /\ rest.ok]

\* the ingest service during an outage, no request in flight: the state is
\* UNAVAILABLE and the WAL holds the events Write accepted since the outage
\* began, any events of any size Write takes
RecoveryInit ==
    /\ InitConsumer
    /\ InitAux
    /\ retryCount = MaxRetry
    /\ redisUp = FALSE
    /\ outages = 1
    /\ isAvailable = FALSE
    /\ lostBy = "probe"
    /\ stream = <<>>
    /\ hcPc = "idle"
    /\ replayPos = 0
    /\ walLock = "free"
    /\ pc = [p \in Procs |-> "idle"]
    /\ ev = [p \in Procs |-> 0]
    /\ \E n \in 1..MaxPreload : \E ws \in [1..n -> WalInputs] :
          LET r == WriteAll([segments |-> << <<>> >>, currentSegment |-> 1,
                             currentSize |-> 0], ws)
          IN /\ \A i, j \in 1..n : ws[i] = ws[j] => i = j
             /\ r.ok
             /\ segments = r.w.segments
             /\ currentSegment = r.w.currentSegment
             /\ currentSize = r.w.currentSize
             /\ outcome = [e \in Events |->
                              IF e \in Range(ws) THEN "wal" ELSE "new"]

\* a line of the replay, followed while the stream has fewer than MaxStream
\* entries
RecoveryReplayLine ==
    /\ Len(stream) < MaxStream
    /\ ReplayLine

RecoveryNext ==
    \/ RedisDown
    \/ RedisRecover
    \/ HealthTick
    \/ ReplayBegin
    \/ RecoveryReplayLine
    \/ ReplayEnd
    \/ ReplayTruncate
    \/ ReplayFailed

\* the recovery from an outage: the health check, scheduled fairly, probing
\* the buffer and replaying the WAL, the buffer going down and coming back
RecoverySpec ==
    /\ RecoveryInit
    /\ [][RecoveryNext]_vars
    /\ WF_vars(HealthTick \/ ReplayBegin \/ RecoveryReplayLine \/ ReplayEnd
               \/ ReplayTruncate \/ ReplayFailed)

\* the ingest service started while the buffer is reachable, on a WAL directory
\* that holds the events of an earlier run: NewWALRepository opens the latest
\* segment, NewLogRepository stores true and setupConsumerGroup returns nil
RestartInit ==
    /\ InitConsumer
    /\ InitAux
    /\ retryCount = MaxRetry
    /\ redisUp = TRUE
    /\ outages = 0
    /\ isAvailable = TRUE
    /\ lostBy = "none"
    /\ stream = <<>>
    /\ hcPc = "idle"
    /\ replayPos = 0
    /\ walLock = "free"
    /\ pc = [p \in Procs |-> "idle"]
    /\ ev = [p \in Procs |-> 0]
    /\ \E n \in 1..MaxPreload : \E ws \in [1..n -> WalInputs] :
          LET r == WriteAll([segments |-> << <<>> >>, currentSegment |-> 1,
                             currentSize |-> 0], ws)
              opened == openLatestSegment(r.w)
          IN /\ \A i, j \in 1..n : ws[i] = ws[j] => i = j
             /\ r.ok
             /\ segments = opened.segments
             /\ currentSegment = opened.currentSegment
             /\ currentSize = opened.currentSize
             /\ outcome = [e \in Events |->
                              IF e \in Range(ws) THEN "wal" ELSE "new"]

\* the health check, scheduled fairly, after such a start
RestartSpec ==
    /\ RestartInit
    /\ [][RecoveryNext]_vars
    /\ WF_vars(HealthTick \/ ReplayBegin \/ RecoveryReplayLine \/ ReplayEnd
               \/ ReplayTruncate \/ ReplayFailed)

\* the ingest service with requests whose context may end during the call
CtxNext ==
    \/ Next
    \/ \E p \in Procs : BufferLogXAddCtx(p)

CtxSpec == Init /\ [][CtxNext]_vars

\* the ingest service with a single producer: one BufferLog call at a time, each
\* started after the one before it returned
ProducerNext ==
    \/ RedisDown
    \/ RedisRecover
    \/ BufferLogLoad(1)
    \/ BufferLogXAdd(1)
    \/ BufferLogCAS(1)
    \/ BufferLogWAL(1)
    \/ HealthTick
    \/ ReplayBegin
    \/ ReplayLine
    \/ ReplayEnd
    \/ ReplayTruncate
    \/ ReplayFailed

ProducerSpec == Init /\ [][ProducerNext]_vars

\* the ingest service with the health check that publishes AVAILABLE only
\* after ReplayWAL returned nil
StoreNext ==
    \/ RedisDown
    \/ RedisRecover
    \/ \E p \in Procs : BufferLogLoad(p)
    \/ \E p \in Procs : BufferLogXAdd(p)
    \/ \E p \in Procs : BufferLogCAS(p)
    \/ \E p \in Procs : BufferLogWAL(p)
    \/ HealthTickStore
    \/ ReplayBegin
    \/ ReplayLine
    \/ ReplayEnd
    \/ ReplayTruncateStore
    \/ StoreAvailable
    \/ ReplayFailedLogged

StoreSpec == Init /\ [][StoreNext]_vars

\* the API-key cache alone: concurrent IsValid calls while time passes
CacheNext ==
    \/ \E c \in Callers, k \in Keys : IsValidRead(c, k)
    \/ \E c \in Callers : IsValidCheck(c)
    \/ \E c \in Callers : IsValidLock(c)
    \/ \E c \in Callers : IsValidRecheck(c)
    \/ \E c \in Callers : IsValidQuery(c)
    \/ Tick

CacheSpec == WalInit /\ [][CacheNext]_vars

\* the whole pipeline: one producer submitting events one after another, the
\* health check, one consumer worker, buffer and sink outages
PipelineNext ==
    \/ RedisDown
    \/ RedisRecover
    \/ BufferLogLoad(1)
    \/ BufferLogXAdd(1)
    \/ BufferLogCAS(1)
    \/ BufferLogWAL(1)
    \/ HealthTick
    \/ ReplayBegin
    \/ ReplayLine
    \/ ReplayEnd
    \/ ReplayTruncate
    \/ ReplayFailed
    \/ SinkDown
    \/ SinkRecover
    \/ ProcessBatchRead
    \/ WriteAttempt
    \/ BackoffSleep
    \/ MoveToDLQ
    \/ AcknowledgeLogs

\* every started BufferLog call runs to its return
IngestFairness ==
    WF_vars(BufferLogXAdd(1) \/ BufferLogCAS(1) \/ BufferLogWAL(1))

\* the health-check ticker keeps ticking and a started ReplayWAL runs to its return
HealthCheckFairness ==
    WF_vars(HealthTick \/ ReplayBegin \/ ReplayLine \/ ReplayEnd \/ ReplayTruncate
            \/ ReplayFailed)

\* the consumer loop keeps calling ProcessBatch and each call runs to its return
ConsumerFairness ==
    WF_vars(ProcessBatchRead \/ WriteAttempt \/ BackoffSleep \/ MoveToDLQ
            \/ AcknowledgeLogs)

\* the consumer worker with its loop scheduled fairly
ConsumerFairSpec ==
    /\ ConsumerInit
    /\ [][ConsumerNext]_vars
    /\ ConsumerFairness

\* the pipeline with every goroutine scheduled fairly
PipelineSpec ==
    /\ Init
    /\ [][PipelineNext]_vars
    /\ IngestFairness
    /\ HealthCheckFairness
    /\ ConsumerFairness

\* ---------------------------------------------------------------- properties: ingest path
WalEvents == Range(Flatten(segments))

\* C2: an event whose WAL.Write returned success is never deleted by Truncate
\* before the replay handler appended it to the buffer: at every moment, and in
\* particular after ReplayWAL returned, every WAL-accepted event is in the
\* buffer stream or still in a WAL segment.
C2_WalAcceptedNeverLost ==
    \A e \in Events : outcome[e] = "wal" => (e \in Range(stream) \/ e \in WalEvents)

\* C3: whenever BufferLog returns nil for an event, that call has appended the
\* event to the buffer stream or written it to a WAL segment by the time of
\* return; every other return is an error (rejected or back-pressure).
C3_AcceptedIsDurable ==
    [][\A e \in Events :
          outcome[e] = "inflight" /\ outcome'[e] # "inflight" =>
             /\ outcome'[e] \in {"buffer", "wal", "rejected", "backpressure"}
             /\ outcome'[e] = "buffer" => stream' = Append(stream, e)
             /\ outcome'[e] = "wal" =>
                   /\ e \in Range(Flatten(segments'))
                   /\ calculateTotalSize(segments') =
                         calculateTotalSize(segments) + LineSize(e)]_vars

\* C3 witness: BufferLog returned nil for one event appended to the buffer and
\* for one written to the WAL after a transient append failure, and both are
\* where they were put.
C3_Witness ==
    /\ \E e \in Events : outcome[e] = "buffer" /\ e \in Range(stream)
    /\ \E e \in Events : outcome[e] = "wal" /\ e \in WalEvents
    /\ ~isAvailable
    /\ \A p \in Procs : pc[p] = "idle"

\* the recovery replay (ReplayWAL) has been started and has not returned,
\* or it returned an error that the health check has not yet handled
ReplayRunning == hcPc \in {"replay", "replaying", "truncate", "failed"}

\* C4: the state is never AVAILABLE while the recovery replay is still running
\* or after it failed: AVAILABLE is published only after the replay, truncate
\* included, completed successfully.
C4_AvailableOnlyAfterReplay == ReplayRunning => ~isAvailable

\* C5: while the availability state is UNAVAILABLE no BufferLog call completes
\* a successful buffer append; every call that returns success in that period
\* wrote its event to the WAL.
C5_NoBufferAppendWhileUnavailable ==
    [][\A e \in Events :
          (outcome[e] = "inflight" /\ outcome'[e] = "buffer") => isAvailable]_vars

\* the buffer and the sink are reachable from now on
StayReachable == <>[](redisUp /\ sinkUp)

\* C1: if the buffer and the sink eventually become and stay reachable, every
\* event for which BufferLog returned nil, through the buffer or through the
\* WAL, eventually appears in the sink or in the DLQ.
C1_AcceptedEventuallyDelivered ==
    StayReachable =>
        \A e \in Events :
            [](outcome[e] \in {"buffer", "wal"} => <>(e \in sink \/ e \in Range(dlq)))

\* ---------------------------------------------------------------- properties: consumer
AckCalled == "ack" \in Range(trail)
DLQCalled == "dlq" \in Range(trail)

\* C6: for every retry_count, 0 and 1 included, AcknowledgeLogs is called for a
\* batch only after a WriteLogBatch call or MoveToDLQ for that batch returned
\* success: the batch is SUNK or DLQED when the acknowledgement is made.
C6_AckOnlyAfterSunkOrDLQed ==
    [][(cpc = "ack" /\ cpc' # "ack") => status \in {"SUNK", "DLQED"}]_vars

\* ProcessBatch returned after MoveToDLQ failed
DLQFailedReturn ==
    /\ cpc = "idle"
    /\ DLQCalled
    /\ status \notin {"DLQED", "ACKED"}

\* C7: when every sink attempt failed and MoveToDLQ failed too, ProcessBatch
\* made no AcknowledgeLogs call, returned (0, DLQ error), and the messages of
\* the batch are still pending in the group.
C7_DLQFailureNoAck ==
    DLQFailedReturn =>
        /\ ~AckCalled
        /\ result = <<0, "dlq">>
        /\ Range(batch) \subseteq pending
        /\ status = "WRITING"

\* C7 witness: all retry_count attempts failed, no cancellation, MoveToDLQ failed.
C7_Witness ==
    /\ DLQFailedReturn
    /\ ~cancelled
    /\ retryCount >= 2
    /\ calls = retryCount
    /\ batch # <<>>

\* writeWithRetry returned the sink's error after the loop ran to its end,
\* the context never having been cancelled
RetriesExhausted == cpc = "dlq" /\ lastErr = "sink" /\ ~cancelled

\* C8: with a sink failing on every call and no cancellation writeWithRetry
\* makes exactly retry_count WriteLogBatch calls and retry_count-1 sleeps, the
\* k-th sleep lasting backoff_base * 2^(k-1); with retry_count = 0 it makes no
\* call and no sleep; after a successful attempt there is no further attempt
\* or sleep.
C8_AttemptsAndBackoff ==
    /\ RetriesExhausted =>
          /\ calls = retryCount
          /\ Len(sleeps) = retryCount - 1
          /\ \A k \in 1..Len(sleeps) : sleeps[k] = RetryBackoff * (2 ^ (k - 1))
    /\ (retryCount = 0 /\ cpc \in {"ack", "dlq"}) => (calls = 0 /\ sleeps = <<>>)
    /\ status = "SUNK" => (calls = attempt + 1 /\ Len(sleeps) = attempt)
    /\ calls <= retryCount

\* C8 witness: three attempts failed, two sleeps were taken.
C8_Witness ==
    /\ RetriesExhausted
    /\ retryCount = 3
    /\ Len(sleeps) = 2
    /\ sleeps[2] = 2 * sleeps[1]

\* C9: when the context is cancelled during a backoff sleep, ProcessBatch makes
\* no further sink attempt and makes no AcknowledgeLogs call for the batch.
C9_CancelDuringBackoffNoAck ==
    lastErr = "ctx" => (~AckCalled /\ calls = attempt + 1)

\* C10: MoveToDLQ is called only after exactly retry_count sink attempts for
\* the batch have all failed; never after a successful attempt and never when
\* the retries were cut short.
C10_DLQOnlyAfterAllAttempts ==
    (DLQCalled \/ cpc = "dlq") => (calls = retryCount /\ lastErr = "sink")

\* the sink or the DLQ holds the event of message m
Delivered(m) ==
    /\ m \in DOMAIN stream
    /\ stream[m] \in sink \/ stream[m] \in Range(dlq)

\* message m is in the batch a running ProcessBatch holds
InHand(m) == cpc # "idle" /\ m \in Range(batch)

\* C11: when the buffer and the sink stay reachable and the consumer keeps
\* running, a message that ProcessBatch left pending (MoveToDLQ or
\* AcknowledgeLogs failed) is eventually handed out again by ReadLogBatch and
\* then reaches the sink or the DLQ.
C11_UnackedBatchRedelivered ==
    (StayReachable /\ []~cancelled) =>
        \A m \in 1..MaxPreload :
            []((m \in pending /\ cpc = "idle") => <>(InHand(m) /\ <>Delivered(m)))

\* ---------------------------------------------------------------- properties: sink
\* the columns of the last event of the batch that carries this id
LastCols(rows, id) ==
    rows[CHOOSE i \in 1..Len(rows) :
            rows[i].id = id /\ \A j \in (i + 1)..Len(rows) : rows[j].id # id].cols

\* WriteLogBatch returned and the database executed every statement it was sent
WriteLogBatchRan == txPc = "idle" /\ wres \in {"nil", "conflict"}

\* C12: after WriteLogBatch, for every id of the batch, written once or several
\* times in it, the table holds exactly one row, with the columns of the last
\* event carrying that id; writing again a batch whose rows the table already
\* holds leaves the set of rows unchanged.
C12_LastWriteWins ==
    WriteLogBatchRan =>
        /\ \A id \in RowIds(wbatch) :
              {r \in table : r.id = id} = {[id |-> id, cols |-> LastCols(wbatch, id)]}
        /\ Range(wbatch) \subseteq tableBefore => table = tableBefore

\* C13: WriteLogBatch is all-or-nothing: while it runs and after it returned an
\* error from any step the table holds the rows it held before the call; after
\* it returned nil every id of the batch is in the table and the rows of the
\* other ids are unchanged.
C13_AllOrNothing ==
    /\ wres \notin {"none", "nil"} => table = tableBefore
    /\ wres = "nil" =>
          /\ RowIds(wbatch) \subseteq {r.id : r \in table}
          /\ {r \in table : r.id \notin RowIds(wbatch)} =
                {r \in tableBefore : r.id \notin RowIds(wbatch)}

\* C13 witness: Commit failed after the upsert of a batch that changes a stored
\* row and adds a new one; the table is what it was.
C13_Witness ==
    /\ wres = "err_commit"
    /\ txPc = "idle"
    /\ tableBefore # {}
    /\ table = tableBefore
    /\ Len(wbatch) = 2
    /\ \E i \in 1..Len(wbatch) : wbatch[i].id \notin {r.id : r \in table}
    /\ \E i \in 1..Len(wbatch) :
          \E r \in table : r.id = wbatch[i].id /\ r.cols # wbatch[i].cols

\* ---------------------------------------------------------------- properties: WAL
\* the segment files hold what they held before the last operation; at most one
\* segment file, empty, was created behind them
OnlyEmptySegmentAdded ==
    /\ Len(segments) \in {Len(walOp.before), Len(walOp.before) + 1}
    /\ \A i \in 1..Len(walOp.before) : segments[i] = walOp.before[i]
    /\ \A i \in (Len(walOp.before) + 1)..Len(segments) : segments[i] = <<>>

\* C14 (as stated): whenever Write returns success the segment sizes sum to at
\* most max_total_size; a Write that would exceed it returns an error, appends
\* nothing and leaves the segment files unchanged.
C14_RejectedWriteChangesNoFile ==
    walOp.name = "Write" =>
        /\ walOp.ok => SegSize(Flatten(segments)) <= MaxTotalSize
        /\ walOp.ok <=>
              SegSize(Flatten(walOp.before)) + LineSize(walOp.arg) <= MaxTotalSize
        /\ ~walOp.ok => segments = walOp.before

\* C14 (amended): whenever Write returns success the segment sizes sum to at
\* most max_total_size; a Write that would exceed it returns an error and
\* appends nothing to any segment: every existing segment file keeps its
\* content, and the only change it can make is the creation of one empty
\* segment file when no segment was open.
C14_RejectedWriteAppendsNothing ==
    walOp.name = "Write" =>
        /\ walOp.ok => SegSize(Flatten(segments)) <= MaxTotalSize
        /\ walOp.ok <=>
              SegSize(Flatten(walOp.before)) + LineSize(walOp.arg) <= MaxTotalSize
        /\ ~walOp.ok => OnlyEmptySegmentAdded

\* C14 witness: a Write made after a Replay was rejected for the budget and
\* left a new empty segment file behind the full ones.
C14_Witness ==
    /\ walOp.name = "Write"
    /\ ~walOp.ok
    /\ Len(segments) = Len(walOp.before) + 1
    /\ SegSize(Flatten(segments)) > 0

C17_ReplayHandsEveryWrittenEvent ==
    (walOp.name = "Replay" /\ replayResult # "handler") => handled = written

\* C18: when the handler returns an error, Replay stops without invoking it
\* for a later event and changes no segment file, ReplayWAL does not call
\* Truncate, and the health check leaves the state UNAVAILABLE.
C18_HandlerErrorKeepsWal ==
    [][/\ (hcPc = "replaying" /\ hcPc' = "failed") =>
             (stream' = stream /\ segments' = segments /\ replayPos' = replayPos)
       /\ (hcPc = "failed" /\ hcPc' # "failed") =>
             /\ hcPc' = "idle"
             /\ ~isAvailable'
             /\ stream' = stream
             /\ segments' = segments]_vars

\* C18 witness: the handler failed after the first events were replayed; the
\* health check is back at its ticker, the state is UNAVAILABLE and the WAL
\* still holds every line.
C18_Witness ==
    /\ hcPc = "idle"
    /\ ~isAvailable
    /\ ~redisUp
    /\ replayPos >= 1
    /\ replayPos < Len(Flatten(segments))
    /\ stream # <<>>
    /\ stream[Len(stream)] = Flatten(segments)[replayPos]

\* C19: a line that is not a complete JSON object, a partial final line in
\* particular, is discarded by Replay without an error, and the handler is
\* invoked for every complete line of every segment.
C19_UnparsableLineSkipped ==
    (/\ walOp.name = "Replay"
     /\ replayResult # "handler"
     /\ \E i \in 1..Len(Flatten(segments)) : ~Parsable(Flatten(segments)[i])) =>
        /\ replayResult = "nil"
        /\ handled = SelectSeq(Flatten(segments), Parsable)

\* C20: in every reachable state the open segment holds at most
\* max_segment_size bytes, and once the bytes written exceed max_segment_size
\* at least two segment files exist.
C20_OpenSegmentBelowThreshold ==
    /\ currentSegment # 0 =>
          /\ currentSize = SegSize(segments[currentSegment])
          /\ currentSize <= MaxSegmentSize
    /\ SegSize(Flatten(segments)) > MaxSegmentSize => Len(segments) >= 2

\* C20 witness: accepted writes of more than max_segment_size bytes, spread
\* over two segments, the open one holding the last event.
C20_Witness ==
    /\ walOp.name = "Write"
    /\ walOp.ok
    /\ SegSize(Flatten(segments)) > MaxSegmentSize
    /\ Len(segments) = 2
    /\ currentSegment = 2
    /\ currentSize > 0

\* ---------------------------------------------------------------- properties: BufferLog errors
\* C21: a BufferLog call whose append to the buffer fails with an error that is
\* not a connection error returns that error: the event is rejected, the call is
\* over, nothing is written to the WAL or the stream and the availability state
\* stays as it was; a rejected event is never in the WAL or the stream later
C21_FatalErrorRejected ==
    /\ [][\A p \in Procs :
            (pc[p] = "xadd" /\ outcome'[ev[p]] = "rejected")
                => /\ pc'[p] = "idle"
                   /\ isAvailable' = isAvailable
                   /\ lostBy' = lostBy
                   /\ segments' = segments
                   /\ currentSize' = currentSize
                   /\ stream' = stream]_vars
    /\ [](\A e \in Events :
            outcome[e] = "rejected" => (e \notin WalEvents /\ e \notin Range(stream)))

\* an event was rejected while the state was and stays AVAILABLE
C21_Witness ==
    \E e \in Events : outcome[e] = "rejected" /\ isAvailable /\ redisUp

\* C22 (as stated): whenever a BufferLog call whose append failed for a lost
\* connection has done its swap, the state is UNAVAILABLE and the swap that made
\* it so was won by one of the failing callers
C22_ExactlyOneCallerWinsSwap ==
    [][\A p \in Procs :
          (pc[p] = "cas" /\ pc'[p] = "wal") => (~isAvailable' /\ lostBy' = "write")]_vars

\* C22 (amended): the swap of a failing caller leaves the state UNAVAILABLE and
\* is won only when the state was AVAILABLE before it, so at most one caller
\* wins each change to UNAVAILABLE and none when the health check made it
\* first; every such caller then writes its own event to the WAL, and its event
\* is accepted exactly if that write put it into the WAL
C22_AtMostOneCallerWinsSwap ==
    /\ [][\A p \in Procs :
            (pc[p] = "cas" /\ pc'[p] = "wal")
                => /\ ~isAvailable'
                   /\ lostBy' = (IF isAvailable THEN "write" ELSE lostBy)
                   /\ ev'[p] = ev[p]
                   /\ outcome' = outcome
                   /\ segments' = segments]_vars
    /\ [][\A p \in Procs :
            (pc[p] = "wal" /\ pc'[p] = "idle")
                => /\ outcome'[ev[p]] \in {"wal", "backpressure"}
                   /\ outcome'[ev[p]] = "wal" <=> ev[p] \in Range(Flatten(segments'))
                   /\ \A e \in Events \ {ev[p]} :
                         (e \in Range(Flatten(segments'))) = (e \in WalEvents)]_vars

\* two calls failed together: one has won the swap and is at its WAL write, the
\* other is about to swap and lose
C22_Witness ==
    \E p, q \in Procs :
        p # q /\ pc[p] = "cas" /\ pc[q] = "wal" /\ lostBy = "write" /\ ~isAvailable

\* ---------------------------------------------------------------- properties: ingest endpoint
\* the request was answered and BufferLog refused one of its events because
\* neither the buffer nor the WAL could take it
BackPressured ==
    /\ response # 0
    /\ \E i \in 1..Len(ingested) : ingested[i].bufferRes = "backpressure"

\* C23: a request with an event that neither the buffer nor the WAL can take
\* is answered 429 (the back-pressure policy in force), an answer a request
\* with a rejected or an accepted event does not get
C23_BackPressureAnswers429 == BackPressured => response = 429

\* the body of the request is read and decoded to its end: a POST of a
\* supported content type within the size limit, one event for a single JSON
\* body, no line over the scanner's limit for NDJSON
Readable(req) ==
    /\ req.method = "POST"
    /\ req.cut = -1
    /\ \/ /\ req.contentType = "application/json"
          /\ Len(req.lines) = 1
          /\ Unmarshals(req.lines[1])
       \/ /\ req.contentType = "application/x-ndjson"
          /\ \A i \in 1..Len(req.lines) : req.lines[i].kind # "long"

\* C24: the endpoint answers 202 exactly if Ingest returned success for every
\* event parsed from the body, for a single JSON body and for NDJSON alike
C24_AcceptedIffEveryIngestSucceeded ==
    (response # 0 /\ Readable(request))
        => (response = 202 <=> \A i \in 1..Len(ingested) : ingested[i].err = "nil")

\* C26: a single JSON body that does not parse is answered 400, a content type
\* that is not supported 415, a body over the size limit 413, and an error of
\* the use case for a well-formed event 500
C26_ErrorStatusCodes ==
    (response # 0 /\ request.method = "POST")
        => /\ (/\ request.contentType = "application/json"
               /\ request.cut = -1
               /\ request.lines # <<>>
               /\ \A i \in 1..Len(request.lines) : request.lines[i].kind = "malformed")
                  => response = 400
           /\ request.contentType = "text/plain" => response = 415
           /\ (/\ request.contentType # "text/plain"
               /\ request.cut # -1
               /\ \A i \in 1..request.cut : request.lines[i].kind # "long")
                  => response = 413
           /\ (/\ request.contentType = "application/json"
               /\ Readable(request)
               /\ request.lines[1].kind \in {"event", "long"}
               /\ ingested[1].err # "nil")
                  => response = 500

\* C30: every Ingest call hands its event to BufferLog exactly once, with
\* received_at set and with the id the client supplied, or with a fresh id exactly
\* if the client supplied none, and returns what BufferLog returned
C30_IngestMintsIdAndReturnsResult ==
    \A i \in 1..Len(ingested) :
        LET c == ingested[i]
        IN /\ Len(c.handed) = 1
           /\ c.handed[1].receivedAt = "now"
           /\ c.in # 0 => c.handed[1].id = c.in
           /\ c.in = 0 =>
                 /\ c.handed[1].id \notin 0..MaxIds
                 /\ \A j \in 1..Len(ingested) :
                       j # i => ingested[j].handed[1].id # c.handed[1].id
           /\ c.err = c.bufferRes

\* one request made Ingest run for an event with an id and for one without,
\* BufferLog failing for one of them
C30_Witness ==
    /\ \E i \in 1..Len(ingested) : ingested[i].in = 0
    /\ \E i \in 1..Len(ingested) : ingested[i].in # 0
    /\ \E i \in 1..Len(ingested) : ingested[i].err # "nil"

\* ---------------------------------------------------------------- properties: ProcessBatch result
\* C25: when ProcessBatch has returned: after a sink write and an acknowledgement
\* that succeeded it returned the batch size and nil; after all sink attempts
\* failed it returned a count of 0 and an error, even though the batch was moved
\* to the DLQ and acknowledged; after a read error or an empty read it returned
\* a count of 0 (with the error, or nil) and the sink was not called
C25_ProcessBatchResult ==
    cpc = "idle" =>
        /\ (status = "ACKED" /\ ~DLQCalled) => result = <<Len(batch), "nil">>
        /\ (status = "ACKED" /\ DLQCalled) => (result[1] = 0 /\ result[2] # "nil")
        /\ status = "NONE" => (result \in {<<0, "nil">>, <<0, "read">>} /\ calls = 0)

\* ---------------------------------------------------------------- properties: health check
\* C27: at most one WAL replay is in progress at any time: a replay starts only
\* when the health check is between two ticks, that is when no replay is
\* running, and while a replay scans the WAL it alone holds the WAL
C27_OneReplayAtATime ==
    /\ [][(hcPc # "replay" /\ hcPc' = "replay") => hcPc = "idle"]_vars
    /\ [](hcPc = "replaying" => walLock = "hc")

\* a replay is running while the buffer is reachable and the state is
\* UNAVAILABLE again: the condition on which a tick starts a replay
C27_Witness == hcPc = "replaying" /\ redisUp /\ ~isAvailable

\* C29: a health-check tick whose probe fails while the state is AVAILABLE
\* makes it UNAVAILABLE at once; a tick whose probe succeeds while the state is
\* AVAILABLE changes neither the state nor the WAL and starts no replay
C29_ProbeWhileAvailable ==
    [][HealthTick =>
          /\ (isAvailable /\ ~redisUp)
                => (~isAvailable' /\ lostBy' = "probe" /\ hcPc' = "idle")
          /\ (isAvailable /\ redisUp)
                => (isAvailable' /\ lostBy' = lostBy /\ hcPc' = "idle")
          /\ segments' = segments
          /\ currentSegment' = currentSegment
          /\ currentSize' = currentSize
          /\ stream' = stream]_vars

\* the first failed probe of an outage has made the state UNAVAILABLE
C29_Witness ==
    /\ ~redisUp /\ ~isAvailable /\ lostBy = "probe"
    /\ outages = 1 /\ hcPc = "idle" /\ WalEvents = {}

\* ---------------------------------------------------------------- properties: recovery
\* the outage is over: the state is AVAILABLE, the health check is back at its
\* ticker after a replay and the WAL holds no event
Recovered == isAvailable /\ hcPc = "idle" /\ WalEvents = {}

\* C28: if the buffer becomes and stays reachable after an outage, then
\* eventually a replay has succeeded, the WAL holds no event and the state is
\* AVAILABLE, whatever events Write accepted into the WAL (the run is followed
\* until the stream holds MaxStream entries)
C28_ReplayEventuallySucceeds ==
    <>[]redisUp => <>(Recovered \/ Len(stream) >= MaxStream)

\* ---------------------------------------------------------------- properties: payload validation
\* C31: a payload without a message, or with an id that is not empty and is
\* malformed, is rejected at parsing: BufferLog never takes such an event into
\* the buffer or the WAL
C31_InvalidPayloadNeverBuffered ==
    \A i \in 1..Len(ingested) :
        ingested[i].bufferRes = "nil"
            => /\ ingested[i].handed[1].message
               /\ ingested[i].handed[1].id # BadId

\* ---------------------------------------------------------------- properties: API-key cache
\* C32 (as stated, its last part): when calls missed together on one key, the
\* query of the first of them leaves an entry from which the ones still
\* waiting for the lock are served, so that no second query is made
C32_OneQueryServesWaiters ==
    [][\A c, d \in Callers :
          (/\ c # d
           /\ apc[d] = "query" /\ apc'[d] = "idle"
           /\ apc[c] = "lock" /\ akey[c] = akey[d])
              => Fresh(cache'[akey[c]], now)]_vars

\* C32 (amended): an IsValid that fails with a database error leaves the cache as it
\* was, so the next IsValid for the key queries the database again; an entry
\* that has not expired is served without a query; the database is queried only
\* by the holder of the write lock and only for a key with no unexpired entry,
\* so of the calls that missed together one queries and, when it got an
\* answer, the others are served from the cache
C32_CacheNeverHoldsError ==
    [][/\ cache' # cache => \E c \in Callers : apc[c] = "query" /\ ares'[c].from = "db"
       /\ \A c \in Callers :
          /\ (apc[c] = "query" /\ ares'[c].from = "err")
                => (cache' = cache /\ ~Fresh(cache'[akey[c]], now))
          /\ (apc[c] = "query" /\ apc'[c] = "idle")
                => /\ cacheMu = c
                   /\ ~Fresh(cache[akey[c]], now)
                   /\ ares'[c].from = "db" => Fresh(cache'[akey[c]], now)
          /\ (apc[c] = "check" /\ apc'[c] # "check" /\ Fresh(aentry[c], now))
                => (apc'[c] = "idle" /\ ares'[c].from = "cache"
                    /\ ares'[c].isValid = aentry[c].isValid)
          /\ (apc[c] = "recheck" /\ apc'[c] # "recheck" /\ Fresh(cache[akey[c]], now))
                => (apc'[c] = "idle" /\ ares'[c].from = "cache")]_vars

\* two calls missed together; one has queried the database and the other,
\* holding the lock, finds the entry
C32_Witness ==
    \E c, d \in Callers :
        /\ c # d
        /\ ares[c].from = "db"
        /\ apc[d] = "recheck"
        /\ Fresh(cache[akey[d]], now)

\* ---------------------------------------------------------------- properties: WAL lock
\* C33: Write, Replay and Truncate exclude one another: the files and the
\* open segment of the WAL change only in a step that finds the lock free, and
\* while Replay scans it holds the lock; the handler of ReplayWAL appends to the
\* stream and writes nothing to the WAL, so a running replay, which has a
\* line to scan or has reached the end, never waits for the lock it holds
C33_WalOperationsExclusive ==
    /\ [][/\ (segments' # segments \/ currentSegment' # currentSegment
               \/ currentSize' # currentSize) => walLock = "free"
          /\ (hcPc = "replaying" /\ replayPos' # replayPos)
                => (walLock = "hc" /\ walLock' = "hc" /\ segments' = segments
                    /\ currentSize' = currentSize /\ outcome' = outcome)]_vars
    /\ [](hcPc = "replaying"
            => (walLock = "hc" /\ replayPos <= Len(Flatten(segments))))

\* a BufferLog call is at its wal.Write while Replay scans the WAL
C33_Witness ==
    /\ hcPc = "replaying"
    /\ replayPos > 0
    /\ \E p \in Procs : pc[p] = "wal"

\* an accepted event that is in the WAL and not in the buffer
Stranded(e) ==
    /\ outcome[e] = "wal"
    /\ e \in WalEvents
    /\ e \notin Range(stream)

\* C34: at the moment the health check publishes AVAILABLE after a recovery,
\* the WAL holds no accepted event that was not appended to the buffer: an
\* event written between Truncate and the change of the state is not stranded
C34_NothingStrandedAtPublish ==
    [][(~isAvailable /\ isAvailable') => \A e \in Events : ~Stranded(e)']_vars

\* C35: when the process starts on a non-empty WAL while the buffer is
\* reachable, the events of the WAL are eventually appended to the buffer
\* unless the buffer goes down again
C35_StartupWalEventuallyReplayed ==
    <>(~redisUp \/ \A e \in Events : outcome[e] = "wal" => e \in Range(stream))

\* C36: every message ReadLogBatch delivers to the consumer, one whose payload
\* is missing or does not parse included, is in the batch the call returns (and
\* so is acknowledged once the batch is SUNK or DLQED) or is no longer pending
\* when the call returns
C36_DeliveredMessageIsHandled ==
    [][lastDelivered' > lastDelivered
          => \A m \in (lastDelivered + 1)..lastDelivered' :
                 m \in Range(batch') \/ m \notin pending']_vars

\* C37: after a crash that left a partial final line, an event written once the
\* WAL is open again is stored as a complete line of its own, so a Replay that
\* reads the WAL to its end invokes the handler for every event written since
\* the last Truncate
C37_WriteAfterCrashIsReplayed ==
    (walOp.name = "Replay" /\ replayResult = "nil") =>
        \A i \in 1..Len(written) : written[i] \in Range(handled)

\* C38: the end of one request's own context while the buffer is reachable
\* does not change the shared state: as long as the buffer has been reachable
\* without interruption, no step takes the state from AVAILABLE to UNAVAILABLE
C38_CancelKeepsAvailability ==
    [][(outages = 0 /\ redisUp /\ isAvailable) => isAvailable']_vars

\* position of the first entry of the stream that carries event e
FirstPos(e) == CHOOSE i \in 1..Len(stream) :
                   stream[i] = e /\ \A j \in 1..(i - 1) : stream[j] # e

\* C39: with a single producer, across an outage and the recovery from it,
\* events reach the stream in the order they were submitted: no event is in
\* the stream while an event accepted before it is still in the WAL and not in
\* the stream, and the events of the stream first appear in submission order
C39_StreamKeepsSubmissionOrder ==
    \A e, f \in Events :
        e < f =>
            /\ Stranded(e) => f \notin Range(stream)
            /\ (e \in Range(stream) /\ f \in Range(stream)) => FirstPos(e) < FirstPos(f)

====
